---- MODULE Spec2Model ----
(***************************************************************************)
(* Model of scripts/fetch_data.py: the AQI categorizer, the two geo        *)
(* enrichment lookups, the city fetcher and the run orchestrator.          *)
(*                                                                         *)
(* Python values are tagged records (None, Num, Str); a JSON object is a   *)
(* function from the keys that are present to their values, so that        *)
(* dict.get(k, default) is Get(d, k, default) and d[k] on an absent key is *)
(* a KeyError.  Every value that is present has its documented JSON type;  *)
(* what varies is which keys are present.                                  *)
(***************************************************************************)
EXTENDS Integers, Sequences, FiniteSets, TLC

VARIABLES
    c_pc,        \* categorize_aqi call: "call" or "returned"
    c_aqi,       \* its argument
    c_out,       \* its return value
    call,        \* arguments and external responses of the last fetch_city_data call
    result,      \* what that call did: raised / row / which lookups it invoked
    pc,          \* position in fetch_all_latam_stations
    ci,          \* index of the current country in LATAM_COUNTRIES
    stations,    \* resp.get("data", []) of the current country's search
    si,          \* index of the current station in stations
    all_rows,    \* the accumulated rows
    now,         \* wall clock in seconds
    requests_log,\* the WAQI requests made so far: kind, country index, time
    csv_writes   \* the contents handed to df.to_csv, one entry per call

vars == <<c_pc, c_aqi, c_out, call, result, pc, ci, stations, si, all_rows,
          now, requests_log, csv_writes>>

(***************************************************************************)
(* Bounds of the model                                                     *)
(***************************************************************************)
MaxAqi == 300        \* indices range over -MaxAqi .. MaxAqi
MaxDefects == 2      \* sub-readings of one payload that are absent or lack "v"
NumCountries == 2    \* the run covers the first NumCountries of LATAM_COUNTRIES
MaxStations == 2     \* station descriptors in one search response

(***************************************************************************)
(* Python values                                                           *)
(***************************************************************************)
None == [t |-> "None"]
Num(n) == [t |-> "num", n |-> n]
Str(s) == [t |-> "str", s |-> s]

EmptyDict == [k \in {} |-> None]

Get(d, k, default) == IF k \in DOMAIN d THEN d[k] ELSE default

\* bool(v) for the values above
Truthy(v) ==
    CASE v.t = "None" -> FALSE
      [] v.t = "num"  -> v.n # 0
      [] v.t = "str"  -> v.s # ""
      [] OTHER        -> TRUE

(***************************************************************************)
(* categorize_aqi                                                          *)
(***************************************************************************)
\* aqi <= k raises TypeError unless aqi is a number
CompareRaises(aqi) == aqi.t # "num"

\* the exception swallowed, falling through to the last label
ExceptFallbackHazardous(aqi) == Str("Hazardous")
\* what the bare except returns
ExceptFallback(aqi) == None

GoodLimit == 50
ModerateLimit == 100
PoorLimit == 250

\* the first threshold taken as exclusive
categorize_aqi_strict(aqi) ==
    IF aqi = None THEN None
    ELSE IF CompareRaises(aqi) THEN ExceptFallback(aqi)
    ELSE IF aqi.n < GoodLimit THEN Str("Good")
    ELSE IF aqi.n <= ModerateLimit THEN Str("Moderate")
    ELSE IF aqi.n <= PoorLimit THEN Str("Poor")
    ELSE Str("Hazardous")

categorize_aqi(aqi) ==
    IF aqi = None THEN None
    ELSE IF CompareRaises(aqi) THEN ExceptFallback(aqi)
    ELSE IF aqi.n <= GoodLimit THEN Str("Good")
    ELSE IF aqi.n <= ModerateLimit THEN Str("Moderate")
    ELSE IF aqi.n <= PoorLimit THEN Str("Poor")
    ELSE Str("Hazardous")

(***************************************************************************)
(* get_population_density                                                  *)
(*                                                                         *)
(* A population tag is a string, modelled as its sequence of characters.   *)
(* The density is kept in hundredths of people per km2 (round(x, 2)).      *)
(***************************************************************************)
Digits == <<"0", "1", "2", "3", "4", "5", "6", "7", "8", "9">>
IsDigit(c) == \E i \in 1..10 : Digits[i] = c
DigitVal(c) == (CHOOSE i \in 1..10 : Digits[i] = c) - 1

\* pop.replace(',', '')
StripCommas(s) == SelectSeq(s, LAMBDA c : c # ",")

\* int(s) raises ValueError on anything but a run of digits
IntRaises(s) == s = <<>> \/ \E i \in 1..Len(s) : ~IsDigit(s[i])

RECURSIVE ParseInt(_)
ParseInt(s) ==
    IF s = <<>> THEN 0
    ELSE ParseInt(SubSeq(s, 1, Len(s) - 1)) * 10 + DigitVal(s[Len(s)])

\* the loop over elements: the populations that parse, in order
RECURSIVE Populations(_)
Populations(elements) ==
    IF elements = <<>> THEN <<>>
    ELSE LET el   == Head(elements)
             pop  == Get(Get(el, "tags", EmptyDict), "population", <<>>)
             rest == Populations(Tail(elements))
         IN  IF pop # <<>> /\ ~IntRaises(StripCommas(pop))
             THEN <<ParseInt(StripCommas(pop))>> \o rest
             ELSE rest

SeqMax(q) == CHOOSE m \in {q[i] : i \in 1..Len(q)} :
                 \A i \in 1..Len(q) : q[i] <= m

\* n / d rounded to the nearest integer, n >= 0, d > 0
RoundDiv(n, d) == (2 * n + d) \div (2 * d)

PopRadiusKm == 5
\* 100 * pop / (3.14159 * radius_km**2), as the fraction 10000000 * pop / (314159 * radius_km**2)
DensityHundredths(pop_max) ==
    RoundDiv(pop_max * (10000000 \div (PopRadiusKm * PopRadiusKm)), 314159)

\* the request failing taken as a population of zero
get_population_density_zero(lat, lon, resp) ==
    IF resp.kind = "raise" THEN Num(0)
    ELSE LET elements == Get(resp.body, "elements", <<>>)
         IN  IF elements = <<>> THEN None
             ELSE IF Populations(elements) = <<>> THEN None
             ELSE Num(DensityHundredths(SeqMax(Populations(elements))))

get_population_density(lat, lon, resp) ==
    IF resp.kind = "raise" THEN None
    ELSE LET elements == Get(resp.body, "elements", <<>>)
         IN  IF elements = <<>> THEN None
             ELSE IF Populations(elements) = <<>> THEN None
             ELSE Num(DensityHundredths(SeqMax(Populations(elements))))

(***************************************************************************)
(* find_closest_industrial_area                                            *)
(*                                                                         *)
(* An item's "lat"/"lon" is Num(n) for a string float() parses to n and    *)
(* Str(s) for one it rejects.  geodesic() is the geopy library; its value  *)
(* is stood in for by 111 km per degree of latitude plus longitude, kept   *)
(* in hundredths of km.                                                    *)
(***************************************************************************)
Abs(x) == IF x < 0 THEN -x ELSE x

GeodesicKm100(lat, lon, ind_lat, ind_lon) ==
    11100 * (Abs(lat - ind_lat) + Abs(lon - ind_lon))

\* float(item["lat"]), float(item["lon"]) raise KeyError or ValueError
ItemRaises(item) ==
    \/ "lat" \notin DOMAIN item
    \/ "lon" \notin DOMAIN item
    \/ item["lat"].t # "num"
    \/ item["lon"].t # "num"

\* the distances the loop computes, items that raise skipped
Distances(lat, lon, items) ==
    {GeodesicKm100(lat.n, lon.n, items[i]["lat"].n, items[i]["lon"].n) :
        i \in {j \in 1..Len(items) : ~ItemRaises(items[j])}}

SetMin(S) == CHOOSE m \in S : \A x \in S : m <= x

find_closest_industrial_area(lat, lon, resp) ==
    IF resp.kind = "raise" THEN None
    ELSE IF resp.body = <<>> THEN None
    ELSE IF Distances(lat, lon, resp.body) = {} THEN None
    ELSE Num(SetMin(Distances(lat, lon, resp.body)))

(***************************************************************************)
(* fetch_city_data                                                         *)
(*                                                                         *)
(* feed, pop_resp and ind_resp are what the three services answer: either  *)
(* [kind |-> "raise"] (the request or .json() raises) or a parsed body.    *)
(* The value says what the call did: whether it raised, the row (or None), *)
(* and which lookups it invoked.                                           *)
(***************************************************************************)
PollutantKeys == {"t", "h", "pm25", "pm10", "no2", "so2", "co"}

\* resp.get("status") != "ok", with an absent status taken as success
StatusOkUnlessError(resp) == Get(resp, "status", None) # Str("error")
StatusOk(resp) == Get(resp, "status", None) = Str("ok")

\* the lookups gated on the coordinates being present rather than truthy
EnrichGateNotNone(lat, lon) == lat # None /\ lon # None
\* the lookups gated on either coordinate
EnrichGateEither(lat, lon) == Truthy(lat) \/ Truthy(lon)
\* "if lat and lon"
EnrichGate(lat, lon) == Truthy(lat) /\ Truthy(lon)

\* lat - delta, lon - radius_km/100: TypeError outside the lookups' try blocks
LookupArgRaises(lat, lon) == lat.t # "num" \/ lon.t # "num"

\* iaqi.get(k, {}).get("v")
Reading(iaqi, k) == Get(Get(iaqi, k, EmptyDict), "v", None)

NoRow == [raised |-> FALSE, row |-> None, pop_called |-> FALSE, ind_called |-> FALSE]
Raised(pop, ind) == [raised |-> TRUE, row |-> None, pop_called |-> pop, ind_called |-> ind]

MakeRow(city, country, lat, lon, iaqi, aqi, population_density, proximity_industry, time) ==
    [City |-> city,
     Country |-> country,
     Latitude |-> lat,
     Longitude |-> lon,
     Temperature |-> Reading(iaqi, "t"),
     Humidity |-> Reading(iaqi, "h"),
     PM25 |-> Reading(iaqi, "pm25"),
     PM10 |-> Reading(iaqi, "pm10"),
     NO2 |-> Reading(iaqi, "no2"),
     SO2 |-> Reading(iaqi, "so2"),
     CO |-> Reading(iaqi, "co"),
     AQI |-> aqi,
     Air_Quality_Category |-> categorize_aqi(aqi),
     Population_Density |-> population_density,
     Proximity_to_Industrial_Areas |-> proximity_industry,
     Timestamp |-> time]

fetch_city_data(city, country, feed, pop_resp, ind_resp, time) ==
    IF feed.kind = "raise" THEN NoRow
    ELSE IF ~StatusOk(feed.body) THEN NoRow
    ELSE IF "data" \notin DOMAIN feed.body THEN Raised(FALSE, FALSE)  \* KeyError
    ELSE LET d    == feed.body["data"]
             iaqi == Get(d, "iaqi", EmptyDict)
             geo  == Get(Get(d, "city", EmptyDict), "geo", <<None, None>>)
             lat  == geo[1]
             lon  == geo[2]
             enrich == EnrichGate(lat, lon)
         IN  IF enrich /\ LookupArgRaises(lat, lon) THEN Raised(TRUE, FALSE)
             ELSE [raised |-> FALSE,
                   row |-> MakeRow(city, country, lat, lon, iaqi, Get(d, "aqi", None),
                              IF enrich THEN get_population_density(lat, lon, pop_resp)
                                        ELSE None,
                              IF enrich THEN find_closest_industrial_area(lat, lon, ind_resp)
                                        ELSE None,
                              time),
                   pop_called |-> enrich,
                   ind_called |-> enrich]

(***************************************************************************)
(* What the external services may answer                                   *)
(***************************************************************************)
RaiseResp == [kind |-> "raise"]
Json(body) == [kind |-> "json", body |-> body]

\* a dict with key k when opt holds a value, the empty dict otherwise
Opt(k, opt) == IF opt = <<>> THEN EmptyDict ELSE k :> opt[1]
Maybe(S) == {<<>>} \cup {<<v>> : v \in S}

AqiInputs == {None, Str("-"), Str("")} \cup {Num(n) : n \in (0 - MaxAqi)..MaxAqi}

\* iaqi objects in which at most MaxDefects sub-readings are absent or lack "v"
IaqiSet ==
    {[k \in PollutantKeys \ A |-> IF k \in B THEN EmptyDict ELSE [v |-> Num(40)]] :
        <<A, B>> \in {ab \in (SUBSET PollutantKeys) \X (SUBSET PollutantKeys) :
                         /\ ab[1] \cap ab[2] = {}
                         /\ Cardinality(ab[1] \cup ab[2]) <= MaxDefects}}
    \cup {EmptyDict}

CoordVals == {None, Num(0), Num(19)}
CitySet == {EmptyDict} \cup {[geo |-> <<lat, lon>>] : lat \in CoordVals, lon \in CoordVals}
AqiSet == {Num(75), Str("-")}

DataSet ==
    {Opt("iaqi", i) @@ Opt("city", c) @@ Opt("aqi", a) :
        i \in Maybe(IaqiSet), c \in Maybe(CitySet), a \in Maybe(AqiSet)}

FullData == [iaqi |-> [k \in PollutantKeys |-> [v |-> Num(40)]],
             city |-> [geo |-> <<Num(19), Num(-99)>>],
             aqi  |-> Num(75)]

FeedResponses ==
    {RaiseResp, Json(EmptyDict), Json([status |-> Str("error")]),
     Json([status |-> Str("error"), data |-> FullData]),
     Json([status |-> Str("ok")])}
    \cup {Json([status |-> Str("ok"), data |-> d]) : d \in DataSet}

Element(pop) == [tags |-> [population |-> pop]]
\* populations "900" and "1,200" and an element with no tags
PopGood == Json([elements |-> <<Element(<<"9", "0", "0">>), EmptyDict,
                                Element(<<"1", ",", "2", "0", "0">>)>>])
PopResponses ==
    {RaiseResp,
     Json(EmptyDict),
     Json([elements |-> <<[tags |-> EmptyDict], Element(<<"a", "b", "c">>)>>]),
     PopGood}

Item(lat, lon) == [lat |-> lat, lon |-> lon]
IndGood == Json(<<Item(Num(21), Num(19)), Item(Str("x"), Num(0)),
                  Item(Num(19), Num(20))>>)
IndResponses ==
    {RaiseResp,
     Json(<<>>),
     Json(<<EmptyDict, Item(Str("x"), Num(19))>>),
     IndGood}

Idle == [kind |-> "idle"]

(***************************************************************************)
(* categorize_aqi applied to one input                                     *)
(***************************************************************************)
RunIdle ==
    /\ pc = "idle" /\ ci = 0 /\ stations = <<>> /\ si = 0 /\ all_rows = <<>>
    /\ now = 0 /\ requests_log = <<>> /\ csv_writes = <<>>

InitCat ==
    /\ c_pc = "call" /\ c_aqi \in AqiInputs /\ c_out = None
    /\ call = Idle /\ result = Idle
    /\ RunIdle

Categorize ==
    /\ c_pc = "call"
    /\ c_out' = categorize_aqi(c_aqi)
    /\ c_pc' = "returned"
    /\ UNCHANGED <<c_aqi, call, result, pc, ci, stations, si, all_rows, now,
                   requests_log, csv_writes>>

NextCat == Categorize
SpecCat == InitCat /\ [][NextCat]_vars

(***************************************************************************)
(* fetch_city_data applied to one city                                     *)
(***************************************************************************)
InitFetch ==
    /\ c_pc = "idle" /\ c_aqi = None /\ c_out = None
    /\ call \in {[city |-> "A", country |-> "Mexico", feed |-> f,
                  pop_resp |-> p, ind_resp |-> i, time |-> 0] :
                    f \in FeedResponses, p \in PopResponses, i \in IndResponses}
    /\ result = Idle
    /\ RunIdle

FetchCall ==
    /\ pc = "idle" /\ call # Idle /\ result = Idle
    /\ result' = fetch_city_data(call.city, call.country, call.feed,
                                 call.pop_resp, call.ind_resp, call.time)
    /\ UNCHANGED <<c_pc, c_aqi, c_out, call, pc, ci, stations, si, all_rows, now,
                   requests_log, csv_writes>>

NextFetch == FetchCall
SpecFetch == InitFetch /\ [][NextFetch]_vars

(***************************************************************************)
(* fetch_all_latam_stations                                                *)
(*                                                                         *)
(* pc:  "search"  about to request the station search of country ci        *)
(*      "station" at the head of the inner loop, at stations[si]           *)
(*      "sleep"   fetch_city_data has returned, time.sleep(1) is next      *)
(*      "write"   both loops are over, df.to_csv is next                   *)
(*      "done"    returned                                                 *)
(*      "aborted" an exception left the function                           *)
(* The clock advances only in time.sleep: requests take no time, the case  *)
(* in which consecutive requests are closest.                              *)
(***************************************************************************)
LATAM_COUNTRIES ==
    <<"Mexico", "Belize", "Guatemala", "Honduras", "El Salvador",
      "Nicaragua", "Costa Rica", "Panama", "Cuba",
      "Colombia", "Venezuela", "Ecuador", "Peru", "Bolivia", "Brazil",
      "Paraguay", "Uruguay", "Chile", "Argentina">>

StationDescs ==
    {EmptyDict, [station |-> EmptyDict], [station |-> [name |-> Str("")]],
     [station |-> [name |-> Str("A")]]}

StationLists == UNION {[1..n -> StationDescs] : n \in 0..MaxStations}

SearchResponses ==
    {RaiseResp, Json(EmptyDict), Json([status |-> Str("error")]),
     Json([status |-> Str("ok")])}
    \cup {Json([status |-> Str("ok"), data |-> l]) : l \in StationLists}

RunFeeds ==
    {RaiseResp, Json(EmptyDict), Json([status |-> Str("error")]),
     Json([status |-> Str("ok")]), Json([status |-> Str("ok"), data |-> FullData])}
RunPopResp == PopGood
RunIndResp == IndGood

Init ==
    /\ c_pc = "idle" /\ c_aqi = None /\ c_out = None
    /\ call = Idle /\ result = Idle
    /\ pc = "search" /\ ci = 1 /\ stations = <<>> /\ si = 0
    /\ all_rows = <<>> /\ now = 0 /\ requests_log = <<>> /\ csv_writes = <<>>

\* "break" in place of the two "continue"
OnSearchFailureBreak == "break"
\* except: continue / status != "ok": continue
OnSearchFailure == "continue"

\* the row put in front of the accumulated rows
AppendRowFront(rows, row) == <<row>> \o rows
\* all_rows.append(row)
AppendRow(rows, row) == Append(rows, row)

\* time.sleep(1) inside "if row:"
AfterFetchSleepOnRow(row) == IF row # None THEN "sleep" ELSE "next"
\* time.sleep(1) follows "if row:" at the indentation of "if city:"
AfterFetch(row) == "sleep"

SLEEP_SECONDS == 1

\* the outer loop moves to the next country, or ends
NextCountry ==
    /\ stations' = <<>> /\ si' = 0
    /\ IF ci < NumCountries
       THEN pc' = "search" /\ ci' = ci + 1
       ELSE pc' = "write" /\ ci' = ci

\* the inner loop moves to the next station, or ends
NextStation ==
    IF si < Len(stations)
    THEN pc' = "station" /\ si' = si + 1 /\ UNCHANGED <<ci, stations>>
    ELSE NextCountry

SearchFailed(resp) == resp.kind = "raise" \/ ~StatusOk(resp.body)

Search ==
    /\ pc = "search"
    /\ \E resp \in SearchResponses :
         /\ requests_log' = Append(requests_log,
                [kind |-> "search", country |-> ci, at |-> now,
                 ok |-> ~SearchFailed(resp)])
         /\ IF SearchFailed(resp)
            THEN IF OnSearchFailure = "continue"
                 THEN NextCountry
                 ELSE pc' = "write" /\ UNCHANGED <<ci, stations, si>>
            ELSE LET data == Get(resp.body, "data", <<>>)
                 IN  IF data = <<>>
                     THEN NextCountry
                     ELSE pc' = "station" /\ stations' = data /\ si' = 1
                          /\ UNCHANGED ci
    /\ UNCHANGED <<c_pc, c_aqi, c_out, call, result, all_rows, now, csv_writes>>

\* station.get("station", {}).get("name")
StationName(station) == Get(Get(station, "station", EmptyDict), "name", None)

SkipStation ==
    /\ pc = "station"
    /\ ~Truthy(StationName(stations[si]))
    /\ NextStation
    /\ UNCHANGED <<c_pc, c_aqi, c_out, call, result, all_rows, now,
                   requests_log, csv_writes>>

FetchCity ==
    /\ pc = "station"
    /\ Truthy(StationName(stations[si]))
    /\ \E feed \in RunFeeds :
         LET city == StationName(stations[si]).s
             r == fetch_city_data(city, LATAM_COUNTRIES[ci], feed,
                                  RunPopResp, RunIndResp, now)
         IN  /\ call' = [city |-> city, country |-> LATAM_COUNTRIES[ci], feed |-> feed,
                         pop_resp |-> RunPopResp, ind_resp |-> RunIndResp, time |-> now]
             /\ result' = r
             /\ requests_log' = Append(requests_log,
                    [kind |-> "fetch", country |-> ci, station |-> si, at |-> now,
                     raised |-> r.raised, row |-> r.row])
             /\ IF r.raised
                THEN pc' = "aborted" /\ UNCHANGED <<ci, stations, si, all_rows>>
                ELSE /\ all_rows' = IF r.row # None THEN AppendRow(all_rows, r.row)
                                    ELSE all_rows
                     /\ IF AfterFetch(r.row) = "sleep"
                        THEN pc' = "sleep" /\ UNCHANGED <<ci, stations, si>>
                        ELSE NextStation
    /\ UNCHANGED <<c_pc, c_aqi, c_out, now, csv_writes>>

Sleep ==
    /\ pc = "sleep"
    /\ now' = now + SLEEP_SECONDS
    /\ NextStation
    /\ UNCHANGED <<c_pc, c_aqi, c_out, call, result, all_rows, requests_log,
                   csv_writes>>

WriteCsv ==
    /\ pc = "write"
    /\ csv_writes' = Append(csv_writes, all_rows)
    /\ pc' = "done"
    /\ UNCHANGED <<c_pc, c_aqi, c_out, call, result, ci, stations, si, all_rows,
                   now, requests_log>>

Next == Search \/ SkipStation \/ FetchCity \/ Sleep \/ WriteCsv

Spec == Init /\ [][Next]_vars

(***************************************************************************)
(* Properties                                                              *)
(***************************************************************************)
Returned == call # Idle /\ result # Idle
FeedOk(c) == c.feed.kind = "json" /\ "status" \in DOMAIN c.feed.body
                 /\ c.feed.body["status"] = Str("ok")
HasData(c) == FeedOk(c) /\ "data" \in DOMAIN c.feed.body
DataOf(c) == c.feed.body["data"]
HasGeo(c) == "city" \in DOMAIN DataOf(c) /\ "geo" \in DOMAIN DataOf(c)["city"]
LatOf(c) == IF HasGeo(c) THEN DataOf(c)["city"]["geo"][1] ELSE None
LonOf(c) == IF HasGeo(c) THEN DataOf(c)["city"]["geo"][2] ELSE None
AqiOf(c) == IF "aqi" \in DOMAIN DataOf(c) THEN DataOf(c)["aqi"] ELSE None
\* the value of sub-reading k of the payload, None when it or its container is missing
SubReading(c, k) ==
    IF /\ "iaqi" \in DOMAIN DataOf(c)
       /\ k \in DOMAIN DataOf(c)["iaqi"]
       /\ "v" \in DOMAIN DataOf(c)["iaqi"][k]
    THEN DataOf(c)["iaqi"][k]["v"]
    ELSE None
ReadingsCarried(c, row) ==
    /\ row.Temperature = SubReading(c, "t")
    /\ row.Humidity = SubReading(c, "h")
    /\ row.PM25 = SubReading(c, "pm25")
    /\ row.PM10 = SubReading(c, "pm10")
    /\ row.NO2 = SubReading(c, "no2")
    /\ row.SO2 = SubReading(c, "so2")
    /\ row.CO = SubReading(c, "co")
    /\ row.AQI = AqiOf(c)
    /\ row.Latitude = LatOf(c)
    /\ row.Longitude = LonOf(c)

\* C1: categorize_aqi maps None to None, an index <= 50 to "Good", 51..100 to
\* "Moderate", 101..250 to "Poor", an index > 250 to "Hazardous", and no number
\* to None.
C1_Thresholds ==
    c_pc = "returned" =>
        /\ (c_aqi = None => c_out = None)
        /\ (c_aqi.t = "num" =>
              /\ (c_aqi.n <= 50 => c_out = Str("Good"))
              /\ (51 <= c_aqi.n /\ c_aqi.n <= 100 => c_out = Str("Moderate"))
              /\ (101 <= c_aqi.n /\ c_aqi.n <= 250 => c_out = Str("Poor"))
              /\ (c_aqi.n > 250 => c_out = Str("Hazardous"))
              /\ c_out # None)

C1_Witness == c_pc = "returned" /\ c_aqi = Num(50) /\ c_out = Str("Good")

\* C2: an index whose comparison raises (a string from the feed) is categorized
\* None, never a label, and the city fetch still returns a row, with a None
\* category.
C2_ErrorGivesNull ==
    (Returned /\ HasData(call) /\ AqiOf(call).t = "str") =>
        /\ categorize_aqi(AqiOf(call)) = None
        /\ ~result.raised
        /\ result.row # None
        /\ result.row.AQI = AqiOf(call)
        /\ result.row.Air_Quality_Category = None

C2_Witness ==
    /\ Returned /\ HasData(call) /\ AqiOf(call) = Str("-")
    /\ result.row # None
    /\ result.row.Air_Quality_Category = None

\* C6: the two lookups are invoked only when latitude and longitude are both
\* non-null; when either is absent or null neither is invoked and the row has
\* Population_Density and Proximity_to_Industrial_Areas None.
C6_NoLookupOnNullCoordinates ==
    Returned =>
        /\ (result.pop_called \/ result.ind_called) =>
              (HasData(call) /\ LatOf(call) # None /\ LonOf(call) # None)
        /\ (HasData(call) /\ (LatOf(call) = None \/ LonOf(call) = None)) =>
              /\ ~result.pop_called /\ ~result.ind_called
              /\ ~result.raised
              /\ result.row # None
              /\ result.row.Population_Density = None
              /\ result.row.Proximity_to_Industrial_Areas = None

C6_Witness ==
    /\ Returned /\ HasData(call)
    /\ LatOf(call) = Num(19) /\ LonOf(call) = None
    /\ ~result.pop_called /\ ~result.ind_called
    /\ result.row # None /\ result.row.Population_Density = None

\* C7: with a successful feed and usable coordinates, a lookup whose request
\* fails yields None, the other lookup is still invoked, and the row is returned
\* with the feed's readings and None only in the failed lookup's field.
C7_LookupsFailIndependently ==
    (Returned /\ HasData(call) /\ Truthy(LatOf(call)) /\ Truthy(LonOf(call))) =>
        /\ ~result.raised
        /\ result.row # None
        /\ result.pop_called /\ result.ind_called
        /\ ReadingsCarried(call, result.row)
        /\ (call.pop_resp = RaiseResp => result.row.Population_Density = None)
        /\ (call.ind_resp = RaiseResp => result.row.Proximity_to_Industrial_Areas = None)
        /\ (call.pop_resp = PopGood => result.row.Population_Density = Num(1528))
        /\ (call.ind_resp = IndGood =>
              result.row.Proximity_to_Industrial_Areas # None)

C7_Witness ==
    /\ Returned /\ HasData(call) /\ Truthy(LatOf(call)) /\ Truthy(LonOf(call))
    /\ call.pop_resp = RaiseResp /\ call.ind_resp = IndGood
    /\ result.row # None
    /\ result.row.Population_Density = None
    /\ result.row.Proximity_to_Industrial_Areas # None

\* C9: for a feed response with success status every missing sub-field (a
\* sub-reading, the index, the coordinates, a containing sub-object) gives None in
\* the row, the fetch never raises and a row is always returned.
C9_DefensiveExtraction ==
    (Returned /\ FeedOk(call)) =>
        /\ ~result.raised
        /\ result.row # None
        /\ ReadingsCarried(call, result.row)

\* What does hold of the extraction: once the "data" object is there, every other
\* missing sub-field gives None and the row is returned.
DefensiveBelowData ==
    (Returned /\ HasData(call)) =>
        /\ ~result.raised
        /\ result.row # None
        /\ ReadingsCarried(call, result.row)

IsFetch(e) == e.kind = "fetch"
IsSearch(e) == e.kind = "search"
Fetches == SelectSeq(requests_log, IsFetch)
Searches == SelectSeq(requests_log, IsSearch)
LastRequest == requests_log[Len(requests_log)]
\* the rows fetch_city_data returned, None left out, in the order of the calls
RECURSIVE RowsOf(_)
RowsOf(fs) ==
    IF fs = <<>> THEN <<>>
    ELSE IF Head(fs).row # None THEN <<Head(fs).row>> \o RowsOf(Tail(fs))
    ELSE RowsOf(Tail(fs))
CountryIndex(name) == CHOOSE k \in 1..Len(LATAM_COUNTRIES) : LATAM_COUNTRIES[k] = name

\* C3: every fetch_city_data call, whatever it returned, is followed by a pause
\* of one second before the next city fetch or station search; the run does not
\* move on from a fetch until the clock has advanced.
C3_PauseAfterEveryFetch ==
    /\ \A i \in 1..Len(requests_log) : \A j \in 1..Len(requests_log) :
          (i < j /\ IsFetch(requests_log[i])) =>
              requests_log[j].at >= requests_log[i].at + 1
    /\ (requests_log # <<>> /\ IsFetch(LastRequest) /\ LastRequest.at = now) =>
          pc \in {"sleep", "aborted"}

C3_Witness ==
    \E i \in 1..Len(requests_log) : \E j \in 1..Len(requests_log) :
        /\ i + 2 = j
        /\ IsFetch(requests_log[i]) /\ requests_log[i].row = None
        /\ IsFetch(requests_log[i + 1]) /\ requests_log[i + 1].row # None
        /\ requests_log[i + 1].at = requests_log[i].at + 1
        /\ IsSearch(requests_log[j])
        /\ requests_log[j].at = requests_log[i + 1].at + 1

\* C4: a country whose search raises or answers a non-success status adds no row
\* and does not abort the run: the next country in the list is searched next,
\* countries are searched in list order, and a run that ends has searched them
\* all and written the output file.
C4_SearchFailureSkipsCountry ==
    /\ \A k \in 1..Len(Searches) : Searches[k].country = k
    /\ \A k \in 1..Len(Searches) :
          ~Searches[k].ok =>
              /\ \A i \in 1..Len(all_rows) :
                    all_rows[i].Country # LATAM_COUNTRIES[k]
              /\ \A i \in 1..Len(Fetches) : Fetches[i].country # k
    /\ (requests_log # <<>> /\ IsSearch(LastRequest) /\ ~LastRequest.ok) =>
          \/ pc = "search" /\ ci = LastRequest.country + 1
          \/ pc \in {"write", "done"} /\ LastRequest.country = NumCountries
    /\ pc = "done" => (Len(Searches) = NumCountries /\ Len(csv_writes) = 1)

C4_Witness ==
    /\ pc = "done"
    /\ ~Searches[1].ok
    /\ Searches[2].ok
    /\ Len(all_rows) > 0
    /\ csv_writes = <<all_rows>>

\* C5: when the feed request raises or the feed status is not "ok",
\* fetch_city_data returns None without raising, no lookup is invoked, and the
\* orchestrator appends nothing for the station and goes on (to the pause, then
\* the next station).
C5_NoRowOnFeedFailure ==
    (Returned /\ ~FeedOk(call)) =>
        /\ result = NoRow
        /\ pc # "aborted"
        /\ \A i \in 1..Len(all_rows) :
              ~(all_rows[i].Timestamp = call.time /\ all_rows[i].City = call.city
                  /\ all_rows[i].Country = call.country)
        /\ Len(all_rows) = Len(RowsOf(Fetches))
        /\ (IsFetch(LastRequest) /\ now = call.time) => pc = "sleep"
        /\ (IsFetch(LastRequest) /\ now > call.time) =>
              \/ /\ pc = "station" /\ ci = LastRequest.country
                 /\ si > LastRequest.station
              \/ pc \in {"search", "write", "done"}

C5_Witness ==
    /\ Returned /\ ~FeedOk(call)
    /\ result.row = None
    /\ pc = "station" /\ si = 2
    /\ Len(Fetches) = 1
    /\ all_rows = <<>>

\* C8: the output file is written exactly once, after every country has been
\* processed and not before; what is written is the non-null rows that
\* fetch_city_data returned, one per fetched station, in the order of the
\* countries and of the stations discovered.
C8_SingleWriteAtEnd ==
    /\ Len(csv_writes) <= 1
    /\ pc = "done" <=> Len(csv_writes) = 1
    /\ csv_writes # <<>> =>
          /\ Len(Searches) = NumCountries
          /\ csv_writes[1] = RowsOf(Fetches)
          /\ csv_writes[1] = all_rows
          /\ \A i \in 1..Len(all_rows) : \A j \in 1..Len(all_rows) :
                i < j =>
                    /\ CountryIndex(all_rows[i].Country) <= CountryIndex(all_rows[j].Country)
                    /\ all_rows[i].Timestamp < all_rows[j].Timestamp
    /\ \A i \in 1..Len(Fetches) : \A j \in 1..Len(Fetches) :
          i < j =>
              \/ Fetches[i].country < Fetches[j].country
              \/ /\ Fetches[i].country = Fetches[j].country
                 /\ Fetches[i].station < Fetches[j].station

C8_Witness ==
    /\ pc = "done"
    /\ Len(csv_writes) = 1
    /\ Len(csv_writes[1]) = 2
    /\ Len(Fetches) = 3
    /\ csv_writes[1][1].Country = "Mexico"
    /\ csv_writes[1][2].Country = "Belize"

====
